---- MODULE Spec2Model ----
(***************************************************************************)
(* A model of package chronytime (vsekhar/chronytime): the chrony tracking *)
(* query over UDP, the uncertainty derived from a reply, and the two       *)
(* consistency primitives WaitUntilAfter and ConsistentOperation.          *)
(*                                                                         *)
(* The sources hold three revisions of the package:                        *)
(*   "v1"  src/chronytime.go lines 1-319    (sequence check, concurrent    *)
(*         wait in ConsistentOperation)                                    *)
(*   "v2"  src/chronytime.go lines 321-643  (read loop on address          *)
(*         mismatch, no sequence check, sequential wait)                   *)
(*   "v3"  src/unnamed/part_000 lines 164-457 (Get, context-aware          *)
(*         WaitUntilAfter, short-read check)                               *)
(* The variable revision selects which one a behaviour runs.               *)
(*                                                                         *)
(* Time is counted in ticks; TicksPerSecond ticks make one second.  The    *)
(* tick stands for the nanosecond of time.Duration: conversions from       *)
(* seconds truncate to whole ticks exactly where the code truncates to     *)
(* whole nanoseconds.                                                      *)
(***************************************************************************)
EXTENDS Integers, Sequences, FiniteSets, TLC

\* ---------------------------------------------------------------- bounds
TicksPerSecond == 2
MaxTime == 4
MaxSeq == 1
MaxInFlight == 1

\* ------------------------------------------------------------- constants
Revisions == {"v1", "v2", "v3"}
Threads == {"main", "bg"}

\* time.Time{}: the zero timestamp, before every clock reading of the model
ZeroTime == 0

PeerAddr == "127.0.0.1:323"
OtherAddr == "other"
NilAddr == "nil"

SeqVals == 0 .. MaxSeq

\* ipAddr.Family of a daemon without a source, and one of a daemon with one
ipAddrFamilyUnspec == 0
ipAddrFamilyINET4 == 1

\* the reference ID of the daemon's local clock, 0x7f7f0101
localRefID == 2139029761

\* waitSync: its attempts, and its threshold in milliseconds
maxAttempts == 3
syncThresholdMs == 20

cfloatExpBits == 7
cfloatCoefBits == 4 * 8 - cfloatExpBits

\* --------------------------------------------------------- compact float
\* uint32(F) >> k for an int32 F, without leaving the 32-bit signed range
uint32Shr(F, k) ==
  IF F >= 0 THEN F \div (2 ^ k) ELSE (2 ^ (32 - k)) + (F \div (2 ^ k))

\* uint32(F) % (1 << k): 2^32 is a multiple of 2^k
uint32Mod(F, k) == F % (2 ^ k)

cfloatExp(F) ==
  LET e == uint32Shr(F, cfloatCoefBits)
      s == IF e >= 2 ^ (cfloatExpBits - 1) THEN e - 2 ^ cfloatExpBits ELSE e
  IN  s - cfloatCoefBits

\* the low 25 bits taken as they are, without their sign
cfloatCoef_Unsigned(F) == uint32Mod(F, cfloatCoefBits)

\* the coefficient: x % (1 << cfloatCoefBits), sign-extended
cfloatCoef(F) ==
  LET c == uint32Mod(F, cfloatCoefBits)
  IN  IF c >= 2 ^ (cfloatCoefBits - 1) THEN c - 2 ^ cfloatCoefBits ELSE c

\* cfloat.value(): float64(coef) * 2^exp, kept exact as the pair (m, e)
cfloatValue(F) == [m |-> cfloatCoef(F), e |-> cfloatExp(F)]

\* float64 arithmetic on the values the model draws is exact; (m, e) is m * 2^e
fMin(a, b) == IF a <= b THEN a ELSE b

fAdd(x, y) ==
  IF x.m = 0 THEN y
  ELSE IF y.m = 0 THEN x
  ELSE LET e == fMin(x.e, y.e)
       IN  [m |-> x.m * (2 ^ (x.e - e)) + y.m * (2 ^ (y.e - e)), e |-> e]

fHalf(x) == [m |-> x.m, e |-> x.e - 1]

fAbs(x) == [m |-> IF x.m < 0 THEN 0 - x.m ELSE x.m, e |-> x.e]

truncDiv(n, d) == IF n >= 0 THEN n \div d ELSE 0 - ((0 - n) \div d)

\* the integer conversion of (x * scale): Go truncates toward zero
fTrunc(x, scale) ==
  LET n == x.m * scale
  IN  IF x.e >= 0 THEN n * (2 ^ x.e)
      ELSE IF 0 - x.e >= 31 THEN 0
      ELSE truncDiv(n, 2 ^ (0 - x.e))

\* v1, v2: |correction| + rootDispersion + 0.5 * rootDelay, converted by
\* time.Duration(s) * time.Second, i.e. truncated to whole seconds
uncertainty(r) ==
  LET correction == cfloatValue(r.CurrentCorrection)
      rootDelay == cfloatValue(r.RootDelay)
      rootDispersion == cfloatValue(r.RootDispersion)
      s == fAdd(fAdd(fAbs(correction), rootDispersion), fHalf(rootDelay))
  IN  fTrunc(s, 1) * TicksPerSecond

\* v3: rootDispersion + 0.5 * rootDelay, converted at tick resolution
uncertaintyFromCorrectedTime(r) ==
  LET rootDelay == cfloatValue(r.RootDelay)
      rootDispersion == cfloatValue(r.RootDispersion)
      s == fAdd(rootDispersion, fHalf(rootDelay))
  IN  fTrunc(s, TicksPerSecond)

\* ------------------------------------------------------------ wire layout
\* the bytes binary.Write produces for the sequence field of struct request:
\* a uint32 in the first and third revision, a [4]byte in the second
sequenceSize(rev) == IF rev = "v2" THEN 4 * 1 ELSE 4

\* a request without the padding against amplification
requestBinarySize_Unpadded(rev) == 1 + 1 + 1 + 1 + 2 + 2 + sequenceSize(rev)

\* the bytes binary.Write produces for struct request: the fields in order,
\* version to sequence, then pad1, pad2 and padding
requestBinarySize(rev) ==
  1 + 1 + 1 + 1 + 2 + 2 + sequenceSize(rev) + 8 * 1 + 93 * 1 + 396 * 1

\* byte offset just past each field of struct response that the model reads
SequenceEnd == 1 + 1 + 1 + 1 + 2 + 2 + 2 + 2 + 2 + 2 + 4
TrackingStart == SequenceEnd + 4 + 4
RefIDEnd == TrackingStart + 4
FamilyEnd == RefIDEnd + 16 + 2
CurrentCorrectionEnd == TrackingStart + 4 + (16 + 2 + 2) + 2 + 2 + (4 + 4 + 4) + 4
RootDelayEnd == CurrentCorrectionEnd + 4 + 4 + 4 + 4 + 4 + 4
RootDispersionEnd == RootDelayEnd + 4
LastUpdateIntervalEnd == RootDispersionEnd + 4

\* binary.Size(response{}); v2's trackingResponse ends with EOR int32
responseBinarySize(rev) ==
  IF rev = "v2" THEN LastUpdateIntervalEnd + 4 ELSE LastUpdateIntervalEnd

\* compact-float words a reply may carry (value = coef * 2^(exp - 25)):
\*   0 -> 0 s, 771751937 -> 0.25 s, 838860801 -> 1 s, 838860799 -> -0.5 s,
\*   872415231 -> -1 s
CorrectionWords == {0, 838860799}
RootDelayWords == {0, 838860801}
RootDispersionWords == {0, 771751937, 872415231}

\* reference IDs and address families a reply may carry
RefIDs == {0, localRefID, 1}
Families == {ipAddrFamilyUnspec, ipAddrFamilyINET4}

\* datagram lengths: empty, cut right after the sequence field, a full reply
DatagramLens == {0, SequenceEnd, LastUpdateIntervalEnd}

\* lengths of the datagrams other hosts send
ForeignLens == {0, LastUpdateIntervalEnd}

\* ---------------------------------------------------------- response decode
\* big-endian integers of the byte sequence b at offset off (from 0)
uint8At(b, off) == b[off + 1]
uint16At(b, off) == uint8At(b, off) * 256 + uint8At(b, off + 1)

\* a uint32, kept as its two 16-bit halves: the value is hi * 65536 + lo
uint32At(b, off) == [hi |-> uint16At(b, off), lo |-> uint16At(b, off + 2)]

\* an int32 (cfloat.F), two's complement
int32At(b, off) ==
  LET hi == uint16At(b, off)
  IN  (IF hi >= 32768 THEN hi - 65536 ELSE hi) * 65536 + uint16At(b, off + 2)

\* binary.Read(bytes.NewReader(b), networkOrder, rep) for a response of size
\* bytes: io.ReadFull of exactly size bytes, then each field in declared
\* order; bytes beyond size stay unread
responseRead(b, size) ==
  IF Len(b) = 0 THEN [err |-> "EOF"]
  ELSE IF Len(b) < size THEN [err |-> "unexpected EOF"]
  ELSE [err |-> "nil",
        Version |-> uint8At(b, 0),
        PktType |-> uint8At(b, 1),
        Res1 |-> uint8At(b, 2),
        Res2 |-> uint8At(b, 3),
        Command |-> uint16At(b, 4),
        Reply |-> uint16At(b, 6),
        Status |-> uint16At(b, 8),
        Sequence |-> uint32At(b, SequenceEnd - 4),
        RefID |-> uint32At(b, TrackingStart),
        Family |-> uint16At(b, TrackingStart + 4 + 16),
        Stratum |-> uint16At(b, TrackingStart + 4 + 16 + 2 + 2),
        LeapStatus |-> uint16At(b, TrackingStart + 4 + 16 + 2 + 2 + 2),
        SecHigh |-> uint32At(b, CurrentCorrectionEnd - 4 - 12),
        SecLow |-> uint32At(b, CurrentCorrectionEnd - 4 - 8),
        Nsec |-> uint32At(b, CurrentCorrectionEnd - 4 - 4),
        CurrentCorrection |-> int32At(b, CurrentCorrectionEnd - 4),
        LastOffset |-> int32At(b, CurrentCorrectionEnd),
        RmsOffset |-> int32At(b, CurrentCorrectionEnd + 4),
        FreqPPM |-> int32At(b, CurrentCorrectionEnd + 8),
        ResidFreqPPM |-> int32At(b, CurrentCorrectionEnd + 12),
        SkewPPM |-> int32At(b, CurrentCorrectionEnd + 16),
        RootDelay |-> int32At(b, RootDelayEnd - 4),
        RootDispersion |-> int32At(b, RootDispersionEnd - 4),
        LastUpdateInterval |-> int32At(b, LastUpdateIntervalEnd - 4)]

\* the reply of chronyd captured in the tests
testVec ==
  <<
    6, 2, 0, 0, 0, 33, 0, 5, 0, 0, 0, 0, 0,
    0, 0, 0, 162, 21, 105, 82, 0, 0, 0, 0, 0, 0,
    0, 0, 206, 108, 0, 132, 206, 108, 0, 132, 0, 0, 0,
    0, 0, 0, 0, 0, 0, 0, 0, 0, 0, 1, 0, 0,
    0, 2, 0, 0, 0, 0, 0, 0, 94, 168, 181, 191, 28,
    152, 249, 196, 236, 234, 237, 72, 235, 37, 44, 58, 234, 192,
    236, 97, 10, 231, 174, 100, 243, 65, 162, 11, 250, 201, 204,
    243, 246, 203, 179, 109, 240, 216, 24, 185, 24, 129, 42, 161
  >>

\* n zero bytes
zeroBytes(n) == [i \in 1 .. n |-> 0]

\* the buffers handed to the decoder: the captured reply, the same with the
\* four bytes of padding the older test appends, with the rest of a 1024-byte
\* receive buffer cut at 128, cut right after the sequence field, and empty
ParseBuffers ==
  {testVec, testVec \o zeroBytes(4), testVec \o zeroBytes(24),
   SubSeq(testVec, 1, SequenceEnd), <<>>}

\* the words handed to cfloat.value(): those of the tests, those the model's
\* replies carry, and the corners of both fields
CfloatWords ==
  {-320148152, -349885382, -356455327, 182955620, -213802485, -87438093,
   -154422419, -254273351, 411118241}
  \cup CorrectionWords \cup RootDelayWords \cup RootDispersionWords
  \cup {e * (2 ^ cfloatCoefBits) + c :
          e \in {0 - 64, 0 - 1, 0, 1, 63},
          c \in {0, 1, 2 ^ 24 - 1, 2 ^ 24, 2 ^ cfloatCoefBits - 1}}

\* ------------------------------------------------------------------ state
VARIABLES
  revision,      \* which revision of the package runs
  now,           \* the local clock, time.Now(), in ticks
  op,            \* the API call the caller (thread main) is in
  net,           \* replies of the daemon on their way to the client's socket
  connDeadline,  \* the socket's read deadline (conn.SetDeadline)
  ctxDone,       \* v3: the caller's context is done (cancelled or timed out)
  tr,            \* per thread: the trackingRequest frame
  wua,           \* per thread: the WaitUntilAfter frame
  getf,          \* the frame of a Get called by the caller
  co,            \* the ConsistentOperation frame
  finished,      \* v1: the channel the waiting goroutine closes
  ws,            \* the frame of NewClient and its waitSync
  codec          \* a decoder applied on its own: its input and its result

\* the package's client and its callers
client ==
  <<revision, now, op, net, connDeadline, ctxDone, tr, wua, getf, co,
    finished, ws>>

vars == <<client, codec>>

\* the response fields the model reads; a fresh buffer decodes to all zeros
ZeroBuf ==
  [Sequence |-> 0, RefID |-> 0, Family |-> 0, CurrentCorrection |-> 0,
   RootDelay |-> 0, RootDispersion |-> 0, EOR |-> 0]

\* Response{}
ZeroReading ==
  [Now |-> ZeroTime, Uncertainty |-> 0, uncorrectedNow |-> ZeroTime,
   correction |-> 0]

\* reqLen: the length of the request datagram written
trIdle ==
  [pc |-> "idle", seq |-> 0, reqLen |-> 0, n |-> 0, addr |-> NilAddr,
   buf |-> ZeroBuf, err |-> "nil"]

wuaIdle ==
  [pc |-> "idle", target |-> ZeroTime, reading |-> ZeroReading,
   wakeAt |-> ZeroTime, err |-> "nil"]

getIdle == [pc |-> "idle", res |-> ZeroReading, err |-> "nil"]

\* waitSync's attempts, the trackingRequest calls it has made, its error, and
\* the client NewClient returns ("nil" for none)
wsIdle ==
  [pc |-> "idle", attempts |-> 0, queries |-> 0, err |-> "nil",
   client |-> "nil"]

\* no decoder has been applied
codecIdle == [pc |-> "idle"]

coIdle ==
  [pc |-> "idle", prepErr |-> "nil", commitErr |-> "nil", t |-> ZeroTime,
   commitArg |-> ZeroTime, commitCalls |-> 0, waitCalls |-> 0,
   retT |-> ZeroTime, retErr |-> "nil"]

Init ==
  /\ revision \in Revisions
  /\ now = ZeroTime + 1
  /\ op = "idle"
  /\ net = {}
  /\ connDeadline = ZeroTime
  /\ ctxDone = FALSE
  /\ tr = [p \in Threads |-> trIdle]
  /\ wua = [p \in Threads |-> wuaIdle]
  /\ getf = getIdle
  /\ co = coIdle
  /\ finished = FALSE
  /\ ws = wsIdle
  /\ codec = codecIdle

\* -------------------------------------------------------------- environment
\* The lines of trackingRequest after ReadFromUDP and those of its caller up
\* to the next sleep, select or return do not block: they run as one step
\* with the read's return.  quiet holds when no trackingRequest is between
\* its return and its caller's next line; every other step waits for it.
quiet == \A p \in Threads : tr[p].pc # "ret"

\* the local clock advances
Tick ==
  /\ quiet
  /\ now < MaxTime
  /\ now' = now + 1
  /\ UNCHANGED <<codec, ws, revision, op, net, connDeadline, ctxDone,
                 tr, wua, getf, co, finished>>

\* the caller's context is cancelled, or its deadline passes
Cancel ==
  /\ quiet
  /\ revision = "v3"
  /\ op = "WaitUntilAfter"
  /\ ~ctxDone
  /\ ctxDone' = TRUE
  /\ UNCHANGED <<codec, ws, revision, now, op, net, connDeadline, tr,
                 wua, getf, co, finished>>

\* ------------------------------------------------------------ trackingRequest
sameUDPAddr(a1, a2) == a1 = a2

\* the bytes of a datagram of length n land at the start of the buffer; what
\* lies beyond them keeps the buffer's earlier content
\* no datagram of the model reaches the bytes of the second revision's EOR
fill(buf, n, seq, refID, family, correction, rootDelay, rootDispersion) ==
  [Sequence |-> IF n >= SequenceEnd THEN seq ELSE buf.Sequence,
   RefID |-> IF n >= RefIDEnd THEN refID ELSE buf.RefID,
   Family |-> IF n >= FamilyEnd THEN family ELSE buf.Family,
   EOR |-> buf.EOR,
   CurrentCorrection |->
     IF n >= CurrentCorrectionEnd THEN correction ELSE buf.CurrentCorrection,
   RootDelay |-> IF n >= RootDelayEnd THEN rootDelay ELSE buf.RootDelay,
   RootDispersion |->
     IF n >= RootDispersionEnd THEN rootDispersion ELSE buf.RootDispersion]

\* what trackingRequest does with one return of ReadFromUDP (n, addr, err)
\* into buffer buf: the error it returns, "nil" when it returns the decoded
\* response, or "continue" when it reads again
readResult(rev, n, addr, err, seq, buf) ==
  IF n = 0 THEN "empty read"
  ELSE IF rev = "v3" /\ n < responseBinarySize(rev) THEN "short read"
  ELSE IF ~sameUDPAddr(addr, PeerAddr)
       THEN (IF rev = "v2" THEN "continue" ELSE "addr mismatch")
  ELSE IF err # "nil" THEN err
  ELSE IF rev # "v2" /\ buf.Sequence # seq THEN "seq mismatch"
  ELSE "nil"

\* thread p is about to call trackingRequest
wantsQuery(p) ==
  /\ tr[p].pc = "idle"
  /\ \/ wua[p].pc = "query"
     \/ p = "main" /\ getf.pc = "query"
     \/ p = "main" /\ ws.pc = "query"

\* what the daemon sends back for a request with sequence number s: nothing
\* (the request or the reply is lost), a full tracking reply or a shorter
\* reply type, echoing s.  The reply is in flight from the moment the request
\* is written; when it arrives is when it is read.
daemonReplies(s) ==
  {{}} \cup {{[src |-> PeerAddr, seq |-> s, n |-> len]} :
               len \in DatagramLens \ {0}}

\* a random sequence number, the request written, the deadline set
trSend(p) ==
  /\ quiet
  /\ wantsQuery(p)
  /\ \E s \in SeqVals :
       /\ tr' = [tr EXCEPT ![p] =
                   [trIdle EXCEPT !.pc = "read", !.seq = s,
                                  !.reqLen = requestBinarySize(revision)]]
       /\ \E r \in daemonReplies(s) :
            net' = IF Cardinality(net) < MaxInFlight THEN net \cup r ELSE net
  /\ connDeadline' = now + 1 * TicksPerSecond
  /\ UNCHANGED <<codec, ws, revision, now, op, ctxDone, wua, getf, co, finished>>

\* binary.Write fails
trWriteFail(p) ==
  /\ quiet
  /\ wantsQuery(p)
  /\ tr' = [tr EXCEPT ![p] = [trIdle EXCEPT !.pc = "ret", !.err = "write"]]
  /\ UNCHANGED <<codec, ws, revision, now, op, net, connDeadline,
                 ctxDone, wua, getf, co, finished>>

\* the frame after ReadFromUDP returned (n, addr, err) into buffer buf
afterRead(f, n, addr, err, buf) ==
  LET res == readResult(revision, n, addr, err, f.seq, buf)
  IN  IF res = "continue"
      THEN [f EXCEPT !.n = n, !.addr = addr, !.buf = buf]
      ELSE [f EXCEPT !.pc = "ret", !.n = n, !.addr = addr, !.err = res,
                     !.buf = IF res = "nil" THEN buf ELSE ZeroBuf]

\* the socket's deadline once thread p's frame has become f: v2 sets it anew
\* before it reads again; only a pending read consults it, so with none
\* pending the model forgets it
deadlineAfter(p, f) ==
  IF f.pc = "read" THEN now + 1 * TicksPerSecond
  ELSE IF \E q \in Threads \ {p} : tr[q].pc = "read" THEN connDeadline
  ELSE ZeroTime

\* the bytes of a datagram from addr may reach the decoder: the first and
\* third revision return before binary.Read unless the peer sent it, the
\* second keeps them in the buffer it reads into again
kept(addr) == sameUDPAddr(addr, PeerAddr) \/ revision = "v2"

\* the caller of thread p's trackingRequest is waitSync, which reads the
\* reference ID and the address family of the response
syncReads(p) == p = "main" /\ ws.pc = "query"

\* what another host's datagram carries in the fields the model reads, when
\* it is long enough: a tracking reply with a root delay of 1 s
ForeignFields ==
  [RefID |-> 1, Family |-> ipAddrFamilyINET4, CurrentCorrection |-> 0,
   RootDelay |-> 838860801, RootDispersion |-> 0]

\* the values drawn for a field of a datagram from addr: nothing to draw
\* when the field is absent or never read, the words of the set when the
\* daemon sent it, the other host's word otherwise
drawn(present, addr, words, foreign) ==
  IF ~(present /\ kept(addr)) THEN {0}
  ELSE IF sameUDPAddr(addr, PeerAddr) THEN words
  ELSE {foreign}

\* ReadFromUDP returns, before the deadline, a datagram of n bytes from addr
\* that carries sequence number s; its tracking fields are drawn here, for a
\* datagram whose bytes may be decoded and the fields its caller reads
trRead(p, n, addr, s) ==
  \E id \in drawn(n >= RefIDEnd /\ syncReads(p), addr, RefIDs,
                  ForeignFields.RefID),
     fam \in drawn(n >= FamilyEnd /\ syncReads(p), addr, Families,
                   ForeignFields.Family),
     c \in drawn(n >= CurrentCorrectionEnd, addr, CorrectionWords,
                 ForeignFields.CurrentCorrection),
     rd \in drawn(n >= RootDelayEnd, addr, RootDelayWords,
                  ForeignFields.RootDelay),
     rs \in drawn(n >= RootDispersionEnd, addr, RootDispersionWords,
                  ForeignFields.RootDispersion) :
    LET buf == fill(tr[p].buf, n, s, id, fam, c, rd, rs)
        f == afterRead(tr[p], n, addr, "nil", buf)
    IN  /\ tr' = [tr EXCEPT ![p] = f]
        /\ connDeadline' = deadlineAfter(p, f)

\* a reply of the daemon arrives and is read
trReadReply(p) ==
  /\ quiet
  /\ tr[p].pc = "read"
  /\ now < connDeadline
  /\ \E d \in net :
       /\ net' = net \ {d}
       /\ trRead(p, d.n, d.src, d.seq)
  /\ UNCHANGED <<codec, ws, revision, now, op, ctxDone, wua, getf, co, finished>>

\* a datagram some other host sent to the client's port arrives and is read
trReadForeign(p) ==
  /\ quiet
  /\ tr[p].pc = "read"
  /\ now < connDeadline
  /\ \E n \in ForeignLens :
       \E s \in (IF n >= SequenceEnd /\ kept(OtherAddr) THEN SeqVals ELSE {0}) :
         trRead(p, n, OtherAddr, s)
  /\ UNCHANGED <<codec, ws, revision, now, op, net, ctxDone, wua, getf, co, finished>>

\* ReadFromUDP returns at the deadline: n = 0, addr = nil, a timeout error
trReadTimeout(p) ==
  /\ quiet
  /\ tr[p].pc = "read"
  /\ now >= connDeadline
  /\ LET f == afterRead(tr[p], 0, NilAddr, "timeout", tr[p].buf)
     IN  /\ tr' = [tr EXCEPT ![p] = f]
         /\ connDeadline' = deadlineAfter(p, f)
  /\ UNCHANGED <<codec, ws, revision, now, op, net, ctxDone, wua, getf, co, finished>>

\* ------------------------------------------------------------------ readings
\* Response.Earliest(); v1 and v2 compute now.Add(-eps) in WaitUntilAfter
Earliest(r) == r.Now - r.Uncertainty

\* a comparison that also accepts the instant itself
After_NotBefore(a, b) == a >= b

\* a comparison no reading passes
After_Never(a, b) == FALSE

\* a difference taken the wrong way round
Sub_Swapped(a, b) == b - a

\* time.Time.After and time.Time.Sub
After(a, b) == a > b
Sub(a, b) == a - b

\* a Response whose Now is the clock's reading as it is
getResponse_Uncorrected(rep, nowv) ==
  [Now |-> nowv,
   Uncertainty |-> uncertaintyFromCorrectedTime(rep),
   uncorrectedNow |-> nowv,
   correction |-> fTrunc(cfloatValue(rep.CurrentCorrection), TicksPerSecond)]

\* v3, Get: the Response made of a decoded reply and the clock read after it
getResponse(rep, nowv) ==
  LET correction == fTrunc(cfloatValue(rep.CurrentCorrection), TicksPerSecond)
  IN  [Now |-> nowv + correction,
       Uncertainty |-> uncertaintyFromCorrectedTime(rep),
       uncorrectedNow |-> nowv,
       correction |-> correction]

\* the reading WaitUntilAfter decides on
reading(rev, rep, nowv) ==
  IF rev = "v3" THEN getResponse(rep, nowv)
  ELSE [Now |-> nowv, Uncertainty |-> uncertainty(rep),
        uncorrectedNow |-> nowv, correction |-> 0]

\* ------------------------------------------------------------------------ Get
CallGet ==
  /\ quiet
  /\ revision = "v3"
  /\ op = "idle"
  /\ op' = "Get"
  /\ getf' = [getIdle EXCEPT !.pc = "query"]
  /\ UNCHANGED <<codec, ws, revision, now, net, connDeadline, ctxDone, tr,
                 wua, co, finished>>

\* trackingRequest has returned to Get
getAfterQuery ==
  /\ getf.pc = "query"
  /\ tr["main"].pc = "ret"
  /\ getf' =
       IF tr["main"].err # "nil"
       THEN [pc |-> "ret", res |-> ZeroReading, err |-> tr["main"].err]
       ELSE [pc |-> "ret", res |-> getResponse(tr["main"].buf, now),
             err |-> "nil"]
  /\ tr' = [tr EXCEPT !["main"] = trIdle]
  /\ UNCHANGED <<codec, ws, revision, now, op, net, connDeadline,
                 ctxDone, wua, co, finished>>

ReturnGet ==
  /\ quiet
  /\ op = "Get"
  /\ getf.pc = "ret"
  /\ op' = "idle"
  /\ getf' = getIdle
  /\ UNCHANGED <<codec, ws, revision, now, net, connDeadline, ctxDone,
                 tr, wua, co, finished>>

\* ------------------------------------------------------- NewClient, waitSync
\* "uncertainty(r.Tracking) > (20 * time.Millisecond)", both sides in ticks
\* times 1000
tooUncertain(r) == uncertainty(r) * 1000 > syncThresholdMs * TicksPerSecond

\* a loop that never gives up
wsAttempt_Unbounded(f) ==
  [f EXCEPT !.pc = "query", !.attempts = f.attempts + 1,
            !.queries = f.queries + 1]

\* the top of the loop: attempts++, and the end of it after maxAttempts
wsAttempt(f) ==
  IF f.attempts + 1 > maxAttempts
  THEN [f EXCEPT !.pc = "ret", !.attempts = f.attempts + 1,
                 !.err = "max attempts"]
  ELSE [f EXCEPT !.pc = "query", !.attempts = f.attempts + 1,
                 !.queries = f.queries + 1]

\* one pass of the loop after the query returned q: its error is returned,
\* the response is refused and the loop goes on, or waitSync returns nil
wsStep(f, q) ==
  IF q.err # "nil" THEN [f EXCEPT !.pc = "ret", !.err = q.err]
  ELSE IF q.buf.Family = ipAddrFamilyUnspec THEN wsAttempt(f)
  ELSE IF q.buf.RefID = 0 \/ q.buf.RefID = localRefID THEN wsAttempt(f)
  ELSE IF tooUncertain(q.buf) THEN wsAttempt(f)
  ELSE IF revision = "v2" /\ q.buf.EOR # 0 THEN wsAttempt(f)
  ELSE [f EXCEPT !.pc = "ret", !.err = "nil"]

\* NewClient's return once dialling or waitSync has ended: "return nil, err"
\* on an error, "return c, nil" otherwise
newClientReturn(f) ==
  IF f.pc # "ret" THEN f
  ELSE [f EXCEPT !.client = IF f.err # "nil" THEN "nil" ELSE "c"]

\* NewClient dials a new socket; the first and second revision then run
\* waitSync, the third returns the client as it is
CallNewClient ==
  /\ quiet
  /\ op = "idle"
  /\ wua["bg"].pc = "idle"
  /\ tr["bg"].pc = "idle"
  /\ op' = "NewClient"
  /\ net' = {}
  /\ connDeadline' = ZeroTime
  /\ \E err \in {"nil", "dial"} :
       ws' = newClientReturn(
               IF err # "nil" THEN [wsIdle EXCEPT !.pc = "ret", !.err = err]
               ELSE IF revision = "v3" THEN [wsIdle EXCEPT !.pc = "ret"]
               ELSE wsAttempt(wsIdle))
  /\ UNCHANGED <<codec, revision, now, ctxDone, tr, wua, getf, co, finished>>

wsAfterQuery ==
  /\ ws.pc = "query"
  /\ tr["main"].pc = "ret"
  /\ ws' = newClientReturn(wsStep(ws, tr["main"]))
  /\ tr' = [tr EXCEPT !["main"] = trIdle]
  /\ UNCHANGED <<codec, revision, now, op, net, connDeadline, ctxDone, wua,
                 getf, co, finished>>

ReturnNewClient ==
  /\ quiet
  /\ op = "NewClient"
  /\ ws.pc = "ret"
  /\ op' = "idle"
  /\ ws' = wsIdle
  /\ UNCHANGED <<codec, revision, now, net, connDeadline, ctxDone, tr, wua,
                 getf, co, finished>>

\* ------------------------------------------------------------ WaitUntilAfter
\* the frame of a WaitUntilAfter(t) that has just been called
wuaCalled(t) == [wuaIdle EXCEPT !.pc = "query", !.target = t]

\* the caller's targets: the clock's reading, or later
MaxAhead == 1

CallWaitUntilAfter ==
  /\ quiet
  /\ op = "idle"
  /\ wua["main"].pc = "idle"
  /\ \E t \in now .. now + MaxAhead :
       wua' = [wua EXCEPT !["main"] = wuaCalled(t)]
  /\ ctxDone' \in (IF revision = "v3" THEN BOOLEAN ELSE {FALSE})
  /\ op' = "WaitUntilAfter"
  /\ UNCHANGED <<codec, ws, revision, now, net, connDeadline, tr, getf, co,
                 finished>>

\* a loop that sleeps and queries again when the query failed
wuaStep_Retry(f, q, nowv) ==
  LET r == reading(revision, q.buf, nowv)
  IN  IF q.err = "nil" /\ After(Earliest(r), f.target)
      THEN [f EXCEPT !.pc = "ret", !.reading = r, !.err = "nil"]
      ELSE [f EXCEPT !.pc = "wait", !.reading = r, !.wakeAt = nowv]

\* one pass of the loop after the query returned: the error is returned, or
\* the reading is taken and either passes or starts the sleep
wuaStep(f, q, nowv) ==
  IF q.err # "nil" THEN [f EXCEPT !.pc = "ret", !.err = q.err]
  ELSE LET r == reading(revision, q.buf, nowv)
       IN  IF After(Earliest(r), f.target)
           THEN [f EXCEPT !.pc = "ret", !.reading = r, !.err = "nil"]
           ELSE [f EXCEPT !.pc = "wait", !.reading = r,
                          !.wakeAt = nowv + Sub(f.target, Earliest(r))]

wuaAfterQuery(p) ==
  /\ wua[p].pc = "query"
  /\ tr[p].pc = "ret"
  /\ wua' = [wua EXCEPT ![p] = wuaStep(wua[p], tr[p], now)]
  /\ tr' = [tr EXCEPT ![p] = trIdle]
  /\ UNCHANGED <<codec, ws, revision, now, op, net, connDeadline,
                 ctxDone, getf, co, finished>>

\* time.Sleep returns (v1, v2), or the time.After case of the select is taken;
\* the loop starts over with a new r
wuaTimer(p) ==
  /\ quiet
  /\ wua[p].pc = "wait"
  /\ now >= wua[p].wakeAt
  /\ wua' = [wua EXCEPT ![p] = [wuaIdle EXCEPT !.pc = "query",
                                           !.target = wua[p].target]]
  /\ UNCHANGED <<codec, ws, revision, now, op, net, connDeadline,
                 ctxDone, tr, getf, co, finished>>

\* v3: the ctx.Done() case of the select is taken
wuaCancelled ==
  /\ quiet
  /\ revision = "v3"
  /\ wua["main"].pc = "wait"
  /\ ctxDone
  /\ wua' = [wua EXCEPT !["main"].pc = "ret", !["main"].err = "canceled"]
  /\ UNCHANGED <<codec, ws, revision, now, op, net, connDeadline,
                 ctxDone, tr, getf, co, finished>>

ReturnWaitUntilAfter ==
  /\ quiet
  /\ op = "WaitUntilAfter"
  /\ wua["main"].pc = "ret"
  /\ op' = "idle"
  /\ wua' = [wua EXCEPT !["main"] = wuaIdle]
  /\ ctxDone' = FALSE
  /\ UNCHANGED <<codec, ws, revision, now, net, connDeadline, tr, getf,
                 co, finished>>

\* ------------------------------------------------------- ConsistentOperation
\* an error of prepare that is dropped
prepareFailed_Ignored(err) == FALSE

\* "if err := prepare(); err != nil"
prepareFailed(err) == err # "nil"

\* an error of commit that is dropped
commitFailed_Ignored(err) == FALSE

\* "if err := commit(t); err != nil"
commitFailed(err) == err # "nil"

\* a return that does not block
waitFinished_NoWait == TRUE

\* what ConsistentOperation blocks on before it returns t: v1 receives from
\* the channel the goroutine closes, v2 has called WaitUntilAfter itself
waitFinished ==
  IF revision = "v1" THEN finished ELSE wua["main"].pc = "ret"

\* a return of the clock's reading at the end
coReturnTime_Now(t, nowv) == nowv

\* "return t, nil": the timestamp taken before commit, not the clock now
coReturnTime(t, nowv) == t

CallConsistentOperation ==
  /\ quiet
  /\ revision \in {"v1", "v2"}
  /\ op = "idle"
  /\ wua["main"].pc = "idle"
  /\ wua["bg"].pc \in {"idle", "done"}
  /\ op' = "ConsistentOperation"
  /\ co' = [coIdle EXCEPT !.pc = "prepare"]
  /\ wua' = [wua EXCEPT !["bg"] = wuaIdle]
  /\ finished' = FALSE
  /\ UNCHANGED <<codec, ws, revision, now, net, connDeadline, ctxDone, tr,
                 getf>>

\* prepare returns; on success the timestamp is taken, v1 starts the goroutine
\* that waits, and commit(t) is called
coPrepare ==
  /\ quiet
  /\ co.pc = "prepare"
  /\ \E err \in {"nil", "errPrepare"} :
       IF prepareFailed(err)
       THEN /\ co' = [co EXCEPT !.pc = "ret", !.prepErr = err,
                                !.retT = ZeroTime, !.retErr = err]
            /\ wua' = wua
       ELSE /\ co' = [co EXCEPT !.pc = "commit", !.prepErr = err, !.t = now,
                                !.commitArg = now,
                                !.commitCalls = co.commitCalls + 1,
                                !.waitCalls =
                                  IF revision = "v1" THEN co.waitCalls + 1
                                  ELSE co.waitCalls]
            /\ wua' = IF revision = "v1"
                      THEN [wua EXCEPT !["bg"] = wuaCalled(now)]
                      ELSE wua
  /\ UNCHANGED <<codec, ws, revision, now, op, net, connDeadline,
                 ctxDone, tr, getf, finished>>

\* commit returns; on success v2 calls WaitUntilAfter(t), v1 goes on to
\* receive from the channel
coCommit ==
  /\ quiet
  /\ co.pc = "commit"
  /\ \E err \in {"nil", "errCommit"} :
       IF commitFailed(err)
       THEN /\ co' = [co EXCEPT !.pc = "ret", !.commitErr = err,
                                !.retT = ZeroTime, !.retErr = err]
            /\ wua' = wua
       ELSE /\ co' = [co EXCEPT !.pc = "wait", !.commitErr = err,
                                !.waitCalls =
                                  IF revision = "v2" THEN co.waitCalls + 1
                                  ELSE co.waitCalls]
            /\ wua' = IF revision = "v2"
                      THEN [wua EXCEPT !["main"] = wuaCalled(co.t)]
                      ELSE wua
  /\ UNCHANGED <<codec, ws, revision, now, op, net, connDeadline,
                 ctxDone, tr, getf, finished>>

\* the wait is over: "return t, nil", whatever WaitUntilAfter returned
coWait ==
  /\ quiet
  /\ co.pc = "wait"
  /\ waitFinished
  /\ co' = [co EXCEPT !.pc = "ret", !.retT = coReturnTime(co.t, now),
                      !.retErr = "nil"]
  /\ UNCHANGED <<codec, ws, revision, now, op, net, connDeadline,
                 ctxDone, tr, wua, getf, finished>>

\* v1: the goroutine's WaitUntilAfter has returned; close(finished), and the
\* goroutine ends.  Its frame is kept while ConsistentOperation may still
\* receive from the channel.
bgClose ==
  /\ quiet
  /\ revision = "v1"
  /\ wua["bg"].pc = "ret"
  /\ finished' = (co.pc \in {"commit", "wait"})
  /\ wua' = [wua EXCEPT
               !["bg"] = IF co.pc \in {"commit", "wait"}
                         THEN [wua["bg"] EXCEPT !.pc = "done"]
                         ELSE wuaIdle]
  /\ UNCHANGED <<codec, ws, revision, now, op, net, connDeadline,
                 ctxDone, tr, getf, co>>

ReturnConsistentOperation ==
  /\ quiet
  /\ op = "ConsistentOperation"
  /\ co.pc = "ret"
  /\ op' = "idle"
  /\ co' = coIdle
  /\ wua' = [wua EXCEPT
               !["main"] = wuaIdle,
               !["bg"] = IF wua["bg"].pc = "done" THEN wuaIdle ELSE wua["bg"]]
  /\ finished' = FALSE
  /\ UNCHANGED <<codec, ws, revision, now, net, connDeadline, ctxDone, tr, getf>>

\* ------------------------------------------------------ decoders on their own
\* cfloat.value() is applied to a word
cfloatDecode ==
  /\ codec.pc = "idle"
  /\ \E F \in CfloatWords :
       codec' = [pc |-> "cfloat", F |-> F, exp |-> cfloatExp(F),
                 coef |-> cfloatCoef(F)]
  /\ UNCHANGED client

\* binary.Read decodes a response of this revision's layout from a buffer
responseParse ==
  /\ codec.pc = "idle"
  /\ \E b \in ParseBuffers :
       codec' = [pc |-> "parse", b |-> b,
                 rep |-> responseRead(b, responseBinarySize(revision))]
  /\ UNCHANGED client

\* the decoder's result has been looked at
codecReturn ==
  /\ codec.pc # "idle"
  /\ codec' = codecIdle
  /\ UNCHANGED client

NextCodec == cfloatDecode \/ responseParse \/ codecReturn

SpecCodec == Init /\ [][NextCodec]_vars

\* --------------------------------------------------------------------- system
trackingRequest ==
  \E p \in Threads :
    \/ trSend(p)
    \/ trWriteFail(p)
    \/ trReadReply(p)
    \/ trReadForeign(p)
    \/ trReadTimeout(p)

Get == CallGet \/ ReturnGet

WaitUntilAfter ==
  \/ CallWaitUntilAfter
  \/ \E p \in Threads : wuaTimer(p)
  \/ wuaCancelled
  \/ ReturnWaitUntilAfter

ConsistentOperation ==
  \/ CallConsistentOperation
  \/ coPrepare
  \/ coCommit
  \/ coWait
  \/ bgClose
  \/ ReturnConsistentOperation

Environment == Tick \/ Cancel

\* trackingRequest has returned and its caller goes on
afterQuery ==
  \/ getAfterQuery
  \/ \E p \in Threads : wuaAfterQuery(p)
  \/ wsAfterQuery

NewClient == CallNewClient \/ ReturnNewClient

Next ==
  \/ Environment
  \/ trackingRequest
  \/ afterQuery
  \/ NewClient
  \/ Get
  \/ WaitUntilAfter
  \/ ConsistentOperation

Spec == Init /\ [][Next]_vars

\* A caller that only waits: WaitUntilAfter is called again and again, by
\* one caller at a time, so that every step is one of thread "main".
NextWait ==
  \/ Environment
  \/ trackingRequest
  \/ \E p \in Threads : wuaAfterQuery(p)
  \/ WaitUntilAfter

\* What the runtime guarantees to a call that is under way: the clock
\* advances, a goroutine that can run its next line does, a timer that is due
\* fires, and a select with a ready case that is entered again and again
\* takes every ready case at some time (it chooses at random).  The clock is
\* held up only for the moment of a return, which is why it is strongly
\* fair.  Nothing is assumed of the caller, of the daemon or of the network.
Fairness ==
  /\ SF_vars(Tick)
  /\ WF_vars(trSend("main") \/ trWriteFail("main"))
  /\ WF_vars(wuaAfterQuery("main"))
  /\ WF_vars(wuaTimer("main"))
  /\ SF_vars(wuaCancelled)

SpecLive == Init /\ [][NextWait]_vars /\ Fairness

\* --------------------------------------------------------------- properties
\* the thread whose WaitUntilAfter(t) ConsistentOperation relies on
waiter == IF revision = "v1" THEN "bg" ELSE "main"

\* a WaitUntilAfter call on thread p has returned
wuaReturned(p) == wua[p].pc \in {"ret", "done"}

\* ConsistentOperation has returned (t, nil)
coSucceeded == co.pc = "ret" /\ co.retErr = "nil"

\* C1: WaitUntilAfter returns nil only if the most recent reading it obtained
\* has Earliest() = Now - Uncertainty strictly after the target.
C1_SuccessOnlyAfterTarget ==
  \A p \in Threads :
    (wuaReturned(p) /\ wua[p].err = "nil")
      => wua[p].reading.Now - wua[p].reading.Uncertainty > wua[p].target

\* a successful return on a reading with some uncertainty
C1_Witness ==
  \E p \in Threads :
    /\ wua[p].pc = "ret"
    /\ wua[p].err = "nil"
    /\ wua[p].reading.Uncertainty > 0

\* C2: whenever ConsistentOperation returns (t, nil), the WaitUntilAfter(t)
\* it started, after commit or concurrently with it, has already returned.
C2_SuccessAfterWait ==
  coSucceeded
    => /\ co.waitCalls = 1
       /\ wuaReturned(waiter)
       /\ wua[waiter].target = co.t

\* the concurrent revision returns success
C2_Witness == coSucceeded /\ revision = "v1" /\ finished

\* C3: ConsistentOperation returns (t, nil) only after its wait ended in
\* success, on a reading whose earliest time is strictly after t; a failure
\* of the wait is propagated.
C3_WaitFailurePropagated ==
  coSucceeded
    => /\ wuaReturned(waiter)
       /\ wua[waiter].err = "nil"
       /\ Earliest(wua[waiter].reading) > co.t

\* C4: if prepare fails, commit is never invoked, no wait and no query is
\* started, the timestamp returned is the zero value and the error is
\* prepare's.
C4_PrepareFailure ==
  (co.pc = "ret" /\ co.prepErr # "nil")
    => /\ co.commitCalls = 0
       /\ co.waitCalls = 0
       /\ wua[waiter].pc = "idle"
       /\ tr[waiter].pc = "idle"
       /\ co.retT = ZeroTime
       /\ co.retErr = co.prepErr

C4_Witness == co.pc = "ret" /\ co.prepErr = "errPrepare"

\* C5, as claimed: if commit fails after a successful prepare, the timestamp
\* returned is the zero value, the error is commit's and WaitUntilAfter is
\* never invoked.
C5_CommitFailureNoWait ==
  (co.pc = "ret" /\ co.commitErr # "nil")
    => /\ co.retT = ZeroTime
       /\ co.retErr = co.commitErr
       /\ co.waitCalls = 0

\* C5, amended: if commit fails after a successful prepare, the timestamp
\* returned is the zero value and the error is commit's, commit having been
\* invoked once; the revision that waits after commit has not invoked
\* WaitUntilAfter and has issued no query.
C5_CommitFailure ==
  (co.pc = "ret" /\ co.commitErr # "nil")
    => /\ co.prepErr = "nil"
       /\ co.commitCalls = 1
       /\ co.retT = ZeroTime
       /\ co.retErr = co.commitErr
       /\ revision = "v2"
            => /\ co.waitCalls = 0
               /\ wua["main"].pc = "idle"
               /\ tr["main"].pc = "idle"

C5_Witness == co.pc = "ret" /\ co.commitErr = "errCommit" /\ revision = "v2"

\* C6: on full success the timestamp returned is the one passed to commit,
\* it is the target of the wait, and commit was invoked exactly once.
C6_SuccessTimestamp ==
  coSucceeded
    => /\ co.retT = co.commitArg
       /\ wua[waiter].target = co.retT
       /\ co.commitCalls = 1

\* success returned after the clock has moved on from the timestamp
C6_Witness == coSucceeded /\ now > co.retT /\ co.commitArg # ZeroTime

\* C7: trackingRequest returns a response only if the sequence number it
\* echoes is the one of the request just sent.
C7_SequenceMatches ==
  \A p \in Threads :
    (tr[p].pc = "ret" /\ tr[p].err = "nil") => tr[p].buf.Sequence = tr[p].seq

\* C8: if the context is done before a reading that passes the target has
\* been obtained, WaitUntilAfter returns the cancellation error.
C8_CancelledReturnsCanceled ==
  [][(/\ revision = "v3"
      /\ ctxDone
      /\ wua["main"].pc \in {"query", "wait"}
      /\ wua'["main"].pc = "ret")
       => wua'["main"].err = "canceled"]_vars

\* C9: once the context is done, WaitUntilAfter writes no further request.
C9_NoQueryAfterCancel ==
  [][(/\ revision = "v3"
      /\ ctxDone
      /\ op = "WaitUntilAfter")
       => ~(tr["main"].pc = "idle" /\ tr'["main"].pc = "read")]_vars

\* C10: a datagram from an address other than the peer's is discarded and
\* the read goes on: no request ends on such a datagram.
C10_ForeignDiscarded ==
  \A p \in Threads : tr[p].pc = "ret" => tr[p].addr # OtherAddr

\* C11: a datagram from the peer whose sequence number is not the one just
\* sent is discarded and the read goes on: no request ends with the
\* sequence-mismatch error.
C11_MismatchDiscarded ==
  \A p \in Threads : tr[p].pc = "ret" => tr[p].err # "seq mismatch"

\* C12: a datagram shorter than the fixed layout of the response is never
\* decoded: a request that returns a response has read at least
\* binary.Size(response{}) bytes.
C12_ShortNeverDecoded ==
  \A p \in Threads :
    (tr[p].pc = "ret" /\ tr[p].err = "nil")
      => tr[p].n >= responseBinarySize(revision)

\* ReadFromUDP of the frame returned at the deadline: no byte, no address
timedOut(f) == f.pc = "ret" /\ f.n = 0 /\ f.addr = NilAddr /\ f.err # "write"

\* C13: expiry of the deadline is reported as the deadline's error, not as
\* the error of a zero-length read.
C13_TimeoutDistinct ==
  \A p \in Threads : timedOut(tr[p]) => tr[p].err = "timeout"

C15_EpsilonFormula ==
  [][\A p \in Threads :
       (tr[p].pc = "ret" /\ tr[p].err = "nil" /\ wua[p].pc = "query")
         => LET s == fAdd(cfloatValue(tr[p].buf.RootDispersion),
                          fHalf(cfloatValue(tr[p].buf.RootDelay)))
                k == 2 ^ (0 - fMin(s.e, 0))
                exact == s.m * (2 ^ (s.e - fMin(s.e, 0))) * TicksPerSecond
                eps == wua'[p].reading.Uncertainty
            IN  /\ eps * k - exact < k
                /\ exact - eps * k < k]_vars

\* C16: the uncertainty of every reading is a non-negative duration, also
\* when the reply's root delay or root dispersion has a negative coefficient.
C16_UncertaintyNonNegative ==
  /\ \A p \in Threads :
       (wua[p].pc \in {"wait", "ret", "done"} /\ wua[p].err = "nil")
         => wua[p].reading.Uncertainty >= 0
  /\ (getf.pc = "ret" /\ getf.err = "nil") => getf.res.Uncertainty >= 0

\* C17: for every reading Get returns, Earliest() is not later than the
\* corrected timestamp, and is equal to it only when the uncertainty is zero.
C17_EarliestNotLater ==
  (getf.pc = "ret" /\ getf.err = "nil")
    => /\ Earliest(getf.res) <= getf.res.Now
       /\ Earliest(getf.res) = getf.res.Now => getf.res.Uncertainty = 0

\* C18: for every 32-bit word F, the exponent of cfloat.value() is the top 7
\* bits of F sign-extended, in -64 .. 63, the coefficient is the low 25 bits
\* sign-extended, in -2^24 .. 2^24 - 1, so that F is exponent * 2^25 plus the
\* low 25 bits, and the value is coefficient * 2^(exponent - 25).  The words
\* of the tests decode to 15396168 * 2^-35 (0.000448087), 15183460 * 2^-20
\* (14.480) and 8465057 * 2^-13 (1033.3).
C18_CfloatDecode ==
  codec.pc = "cfloat"
    => /\ codec.exp + 25 \in (0 - 64) .. 63
       /\ codec.coef \in (0 - 2 ^ 24) .. (2 ^ 24 - 1)
       /\ codec.F = (codec.exp + 25) * (2 ^ 25) + (codec.coef % (2 ^ 25))
       /\ codec.F = 0 - 320148152
            => (codec.exp = 0 - 10 - 25 /\ codec.coef = 15396168)
       /\ codec.F = 182955620 => (codec.exp = 5 - 25 /\ codec.coef = 15183460)
       /\ codec.F = 411118241 => (codec.exp = 12 - 25 /\ codec.coef = 8465057)

\* a word whose exponent and coefficient are both negative has been decoded
C18_Witness == codec.pc = "cfloat" /\ codec.exp + 25 < 0 /\ codec.coef < 0

\* C19: decoding a response succeeds for every buffer that holds at least the
\* 104 bytes of the daemon's reply, trailing bytes being ignored, and the
\* captured reply decodes to sequence 2719312210 (41493 * 65536 + 26962),
\* reference ID 0xCE6C0084 (52844 * 65536 + 132), family 1, stratum 2,
\* reference time 1588114879 s and the nine compact-float words expected.
C19_CapturedReplyDecodes ==
  (codec.pc = "parse" /\ Len(codec.b) >= 104)
    => /\ codec.rep.err = "nil"
       /\ codec.rep.Version = 6 /\ codec.rep.PktType = 2
       /\ codec.rep.Command = 33 /\ codec.rep.Reply = 5
       /\ codec.rep.Status = 0
       /\ codec.rep.Sequence = [hi |-> 41493, lo |-> 26962]
       /\ codec.rep.RefID = [hi |-> 52844, lo |-> 132]
       /\ codec.rep.Family = 1
       /\ codec.rep.Stratum = 2
       /\ codec.rep.LeapStatus = 0
       /\ codec.rep.SecHigh = [hi |-> 0, lo |-> 0]
       /\ codec.rep.SecLow.hi * 65536 + codec.rep.SecLow.lo = 1588114879
       /\ codec.rep.Nsec.hi * 65536 + codec.rep.Nsec.lo = 479787460
       /\ codec.rep.CurrentCorrection = 0 - 320148152
       /\ codec.rep.LastOffset = 0 - 349885382
       /\ codec.rep.RmsOffset = 0 - 356455327
       /\ codec.rep.FreqPPM = 182955620
       /\ codec.rep.ResidFreqPPM = 0 - 213802485
       /\ codec.rep.SkewPPM = 0 - 87438093
       /\ codec.rep.RootDelay = 0 - 154422419
       /\ codec.rep.RootDispersion = 0 - 254273351
       /\ codec.rep.LastUpdateInterval = 411118241

\* C20: waitSync returns nil, and NewClient a client, only on a response
\* whose address family is not unspecified, whose reference ID is neither 0
\* nor the local clock's, and whose uncertainty rootDispersion + 0.5 *
\* rootDelay, written m * 2^e seconds with e <= 0, is below 20 ms.
C20_ReadinessGate ==
  [][(op = "NewClient" /\ ws.pc # "ret" /\ ws'.pc = "ret" /\ ws'.err = "nil")
       => /\ tr["main"].pc = "ret"
          /\ tr["main"].err = "nil"
          /\ tr["main"].buf.Family # 0
          /\ tr["main"].buf.RefID \notin {0, 2139029761}
          /\ LET s == fAdd(cfloatValue(tr["main"].buf.RootDispersion),
                           fHalf(cfloatValue(tr["main"].buf.RootDelay)))
                 k == 2 ^ (0 - fMin(s.e, 0))
                 sk == s.m * (2 ^ (s.e - fMin(s.e, 0)))
             IN  sk * 1000 < 20 * k]_vars


\* C21: NewClient's readiness gate makes at most three queries; it ends with
\* the "max attempts" error only after three queries whose responses were all
\* refused; a query that fails ends it at once with that query's error; and
\* whenever it fails NewClient returns no client.
C21_GateBounded ==
  [][/\ ws'.queries <= 3
     /\ (ws'.pc = "ret" /\ ws'.err = "max attempts") => ws'.queries = 3
     /\ (ws.pc = "query" /\ tr["main"].pc = "ret" /\ tr["main"].err # "nil")
          => (ws'.pc = "ret" /\ ws'.err = tr["main"].err
              /\ ws'.queries = ws.queries)
     /\ (ws.pc = "query" /\ ws'.pc = "ret" /\ ws'.err = "max attempts")
          => tr["main"].err = "nil"
     /\ (ws'.pc = "ret" /\ ws'.err # "nil") => ws'.client = "nil"]_vars

\* waitSync gave up after its third response was refused
C21_Witness ==
  /\ revision \in {"v1", "v2"}
  /\ ws.pc = "ret"
  /\ ws.err = "max attempts"
  /\ ws.queries = 3
  /\ ws.client = "nil"

\* C22: at most one request/response exchange is in flight on the socket at a
\* time, and once ConsistentOperation has returned no WaitUntilAfter that it
\* started is still running in the background.
C22_OneExchangeInFlight ==
  /\ Cardinality({p \in Threads : tr[p].pc = "read"}) <= 1
  /\ op = "idle" => wua["bg"].pc = "idle"

\* C23: a query waits under one deadline: while its read stays pending, and
\* no other query is reading on the socket, a step (a discarded datagram
\* included) leaves the socket's deadline where the query set it.
C23_OneDeadlinePerQuery ==
  [][\A p \in Threads :
       (/\ tr[p].pc = "read"
        /\ tr'[p].pc = "read"
        /\ \A q \in Threads \ {p} : tr[q].pc # "read" /\ tr'[q].pc # "read")
       => connDeadline' = connDeadline]_vars

\* every trackingRequest of thread p returns
queriesReturn(p) == []<>(tr[p].pc # "read")

\* the most by which a reading's earliest time is behind the clock it was
\* taken at, over the revisions and the replies of the daemon
maxLag ==
  LET lags == {ZeroTime - Earliest(reading(rev,
                                           [ZeroBuf EXCEPT
                                              !.CurrentCorrection = c,
                                              !.RootDelay = d,
                                              !.RootDispersion = e],
                                           ZeroTime)) :
                 rev \in Revisions, c \in CorrectionWords,
                 d \in RootDelayWords, e \in RootDispersionWords}
  IN  CHOOSE l \in lags : \A m \in lags : m <= l

\* the WaitUntilAfter of thread p cannot go on for ever as far as the model
\* looks: the clock can pass its target by more than any reading's lag, or
\* its context is done
waitBounded(p) ==
  \/ wua[p].target + maxLag < MaxTime
  \/ p = "main" /\ op = "WaitUntilAfter" /\ ctxDone

\* C24: if every query returns, a WaitUntilAfter that is running, with the
\* clock advancing past its target by more than the uncertainty or with its
\* context cancelled, eventually returns.
C24_WaitTerminates ==
  queriesReturn("main")
    => ((wua["main"].pc \in {"query", "wait"} /\ waitBounded("main"))
          ~> wuaReturned("main"))

\* a WaitUntilAfter that slept and queried again has returned nil, and one
\* has returned the cancellation error
C24_Witness ==
  \/ /\ wua["main"].pc = "ret"
     /\ wua["main"].err = "nil"
     /\ wua["main"].target + maxLag < MaxTime
     /\ wua["main"].reading.uncorrectedNow > wua["main"].target + 1
  \/ /\ revision = "v3"
     /\ wua["main"].pc = "ret"
     /\ wua["main"].err = "canceled"
     /\ ~(wua["main"].target + maxLag < MaxTime)

\* C25: every pass of WaitUntilAfter's loop decides on the reading made of
\* the response its own query has just returned and of the clock read then;
\* a reading that does not pass starts a sleep of exactly target - Earliest(),
\* which is not negative; no query is outstanding during the sleep, and the
\* next query comes only after the sleep is over.
C25_FreshReadingThenSleep ==
  [][\A p \in Threads :
       /\ (wua[p].pc = "query" /\ tr[p].pc = "ret" /\ tr[p].err = "nil")
            => LET r == wua'[p].reading
                   earliest == r.Now - r.Uncertainty
               IN  /\ r = reading(revision, tr[p].buf, now)
                   /\ r.uncorrectedNow = now
                   /\ wua'[p].pc = "ret" <=> earliest > wua[p].target
                   /\ wua'[p].pc = "wait" <=> earliest <= wua[p].target
                   /\ wua'[p].pc = "wait"
                        => /\ wua'[p].wakeAt - now = wua[p].target - earliest
                           /\ wua'[p].wakeAt - now >= 0
       /\ wua'[p].pc = "wait" => tr'[p].pc = "idle"
       /\ (wua[p].pc = "wait" /\ wua'[p].pc = "query")
            => (now >= wua[p].wakeAt /\ tr'[p].pc = "idle")
       /\ (wua[p].pc = "wait" /\ wua'[p].pc # "wait")
            => wua'[p].pc \in {"query", "ret"}]_vars

\* a reading taken after the target that does not pass yet, and the sleep it
\* starts
C25_Witness ==
  \E p \in Threads :
    /\ wua[p].pc = "wait"
    /\ wua[p].reading.uncorrectedNow > wua[p].target
    /\ wua[p].wakeAt > wua[p].reading.uncorrectedNow
    /\ tr[p].pc = "idle"

\* C26: when the query of a WaitUntilAfter fails, the call returns in the
\* same step with that query's error, which is neither nil nor the
\* cancellation error, and it neither sleeps nor queries again.
C26_QueryErrorReturned ==
  [][\A p \in Threads :
       /\ (wua[p].pc = "query" /\ tr[p].pc = "ret" /\ tr[p].err # "nil")
            => /\ wua'[p].pc = "ret"
               /\ wua'[p].err = tr[p].err
               /\ wua'[p].err \notin {"nil", "canceled"}
               /\ wua'[p].wakeAt = wua[p].wakeAt
               /\ tr'[p].pc = "idle"
       /\ (wuaReturned(p) /\ wua[p].err \notin {"nil", "canceled"})
            => /\ tr'[p].pc = "idle"
               /\ wua'[p].pc \in {"ret", "done", "idle"}
               /\ wua'[p].pc # "idle" => wua'[p].err = wua[p].err]_vars

\* a WaitUntilAfter has returned the error of its query; in the third
\* revision its context was done by then
C26_Witness ==
  \E p \in Threads :
    /\ wua[p].pc = "ret"
    /\ wua[p].err \in {"write", "empty read"}
    /\ tr[p].pc = "idle"
    /\ revision = "v3" => ctxDone

\* C27: a Get whose query succeeded returns the Response with the clock read
\* once (t0), Now = t0 + correction where correction is the decoded current
\* correction of the reply, and Uncertainty the uncertainty computed from the
\* same reply, so that Earliest() = t0 + correction - Uncertainty; a Get
\* whose query failed returns the zero Response and the query's error.
C27_GetReading ==
  [][(getf.pc = "query" /\ tr["main"].pc = "ret")
       => IF tr["main"].err = "nil"
          THEN LET r == getf'.res
                   rep == tr["main"].buf
                   corr == fTrunc(cfloatValue(rep.CurrentCorrection),
                                  TicksPerSecond)
               IN  /\ getf'.pc = "ret"
                   /\ getf'.err = "nil"
                   /\ r.uncorrectedNow = now
                   /\ r.correction = corr
                   /\ r.Now = now + corr
                   /\ r.Uncertainty = uncertaintyFromCorrectedTime(rep)
                   /\ Earliest(r) = now + corr - r.Uncertainty
          ELSE /\ getf'.pc = "ret"
               /\ getf'.res = ZeroReading
               /\ getf'.err = tr["main"].err]_vars

\* Get has returned a Response with a correction and an uncertainty that are
\* not zero
C27_Witness ==
  /\ getf.pc = "ret"
  /\ getf.err = "nil"
  /\ getf.res.correction # 0
  /\ getf.res.Uncertainty > 0
  /\ getf.res.Now = getf.res.uncorrectedNow + getf.res.correction

====
